---- MODULE Spec2Model ----
(***************************************************************************)
(* A model of the popcap pak codec: the two loaders (Pak::from_read,       *)
(* Pak::from_bytes) and the serializer (Pak::write_to) of src/src/pak.rs,  *)
(* over the constants and error kinds of src/src/lib.rs.  The byte-level   *)
(* reader, writer and entry modules are not part of the sources at hand;   *)
(* they are modelled from the written specification of the format.         *)
(*                                                                         *)
(* Representation.  A byte is a number in 0..255.  A payload is a sequence *)
(* of units: a unit u >= 0 is the byte u, a unit u < 0 stands for a run of *)
(* 2^31 copies of the byte -u-1, so that payloads longer than 2^32-1 bytes *)
(* can be written down.  Lengths (usize, u32) and timestamps (u64) are     *)
(* kept at full width as little-endian sequences of 16-bit limbs.          *)
(***************************************************************************)
EXTENDS Integers, Sequences, FiniteSets, TLC

VARIABLES
    input,      \* the wire bytes handed to the loader
    loaded,     \* which constructor produced the archive: none, read, bytes, built
    res,        \* the result of the load: [kind, arg, entries, parsed]
    pak,        \* Pak.entries of the live archive
    wpc,        \* position of the running write_to call
    widx,       \* index of the entry the running loop of write_to is at
    sink,       \* the bytes the sink of the current write_to call has received
    wres,       \* the error write_to returned, if it failed
    call,       \* Pak.entries as they were when the current write_to call began
    chain,      \* successful write_to calls in a row with no seek in between
    prevSink    \* what the previous call of that row emitted

vars == <<input, loaded, res, pak, wpc, widx, sink, wres, call, chain, prevSink>>

----------------------------------------------------------------------------
(* Bounds of the model *)

\* the longest record table the generated inputs hold
MaxRecs == 2

----------------------------------------------------------------------------
(* Constants of src/src/lib.rs *)

MAX_NAME_LEN == 255
Limb == 256 * 256
\* u32::MAX as two 16-bit limbs, least significant first
MAX_DATA_LEN == <<Limb - 1, Limb - 1>>
MAGIC == <<192, 74, 192, 186>>
VERSION == <<0, 0, 0, 0>>
FILEFLAGS_END == 128
\* faulty variant: the forward slash is not a separator
PATH_SEPERATOR_BYTESET_1 == {92}
PATH_SEPERATOR_BYTESET == {92, 47}
XOR_KEY == 247

NoErr == [kind |-> "Ok", arg |-> <<>>]
Io == [kind |-> "Io", arg |-> <<>>]
InvalidMagic(bytes) == [kind |-> "InvalidMagic", arg |-> bytes]
InvalidVersion(bytes) == [kind |-> "InvalidVersion", arg |-> bytes]
InvalidNameLength(n) == [kind |-> "InvalidNameLength", arg |-> <<n>>]
InvalidDataLength(w) == [kind |-> "InvalidDataLength", arg |-> w]
\* an index out of range: the thread panics, no PakError is returned
Panic == [kind |-> "Panic", arg |-> <<>>]

----------------------------------------------------------------------------
(* Bytes, units and wide numbers *)

RECURSIVE XorBits(_, _, _)
XorBits(a, b, n) ==
    IF n = 0 THEN 0
    ELSE (((a % 2) + (b % 2)) % 2) + (2 * XorBits(a \div 2, b \div 2, n - 1))

\* the obfuscation transform of every byte value
TransformTable == [b \in 0..255 |-> XorBits(b, XOR_KEY, 8)]

\* the obfuscation transform of one byte
Transform(b) == TransformTable[b]

\* the transform of one unit of payload (a run is transformed bytewise)
TransformUnit(u) == IF u < 0 THEN -Transform(-u - 1) - 1 ELSE Transform(u)

TransformAll(s) == [i \in 1..Len(s) |-> TransformUnit(s[i])]

\* the number of bytes of a unit, as limbs
UnitLen(u) == IF u < 0 THEN <<0, Limb \div 2>> ELSE <<1, 0>>

WAdd(a, b) ==
    LET lo == a[1] + b[1]
    IN <<lo % Limb, a[2] + b[2] + (lo \div Limb)>>

WLeq(a, b) == a[2] < b[2] \/ (a[2] = b[2] /\ a[1] <= b[1])

RECURSIVE WLen(_)
WLen(s) == IF s = <<>> THEN <<0, 0>> ELSE WAdd(UnitLen(Head(s)), WLen(Tail(s)))

Drop(s, n) == SubSeq(s, n + 1, Len(s))
Take(s, n) == SubSeq(s, 1, n)

\* u32 <-> 4 little-endian bytes, u64 <-> 8 little-endian bytes
U32FromLE(b) == <<b[1] + (256 * b[2]), b[3] + (256 * b[4])>>
U32ToLE(w) == <<w[1] % 256, w[1] \div 256, w[2] % 256, w[2] \div 256>>
U64FromLE(b) == [i \in 1..4 |-> b[(2 * i) - 1] + (256 * b[2 * i])]
U64ToLE(w) == [i \in 1..8 |-> IF i % 2 = 1 THEN w[(i + 1) \div 2] % 256
                                          ELSE w[i \div 2] \div 256]

----------------------------------------------------------------------------
(* reader::PakReader over a source of plain wire bytes *)

ROk(v, rest) == [ok |-> TRUE, val |-> v, rest |-> rest, err |-> NoErr]
RErr(e) == [ok |-> FALSE, val |-> <<>>, rest |-> <<>>, err |-> e]

read_exact(src, n) ==
    IF Len(src) < n THEN RErr(Io)
    ELSE ROk(TransformAll(Take(src, n)), Drop(src, n))

read_u8(src) ==
    LET r == read_exact(src, 1)
    IN IF r.ok THEN ROk(r.val[1], r.rest) ELSE r

read_u32(src) ==
    LET r == read_exact(src, 4)
    IN IF r.ok THEN ROk(U32FromLE(r.val), r.rest) ELSE r

read_u64(src) ==
    LET r == read_exact(src, 8)
    IN IF r.ok THEN ROk(U64FromLE(r.val), r.rest) ELSE r

read_magic(src) ==
    LET r == read_exact(src, 4)
    IN IF r.ok /\ r.val # MAGIC THEN RErr(InvalidMagic(r.val)) ELSE r

read_version(src) ==
    LET r == read_exact(src, 4)
    IN IF r.ok /\ r.val # VERSION THEN RErr(InvalidVersion(r.val)) ELSE r

read_filename(src) ==
    LET n == read_u8(src)
    IN IF n.ok THEN read_exact(n.rest, n.val) ELSE n

\* the end flag bit of a flag byte
HasEndFlag(flags) == (flags \div FILEFLAGS_END) % 2 = 1

\* the table: records until a flag byte with the end bit; val is the list of
\* Records, and on failure val is the list read so far
RECURSIVE read_records_from(_, _)
read_records_from(src, acc) ==
    LET f == read_u8(src)
    IN IF ~f.ok THEN [f EXCEPT !.val = acc]
       ELSE IF HasEndFlag(f.val) THEN ROk(acc, f.rest)
       ELSE LET n == read_filename(f.rest)
            IN IF ~n.ok THEN [n EXCEPT !.val = acc]
               ELSE LET s == read_u32(n.rest)
                    IN IF ~s.ok THEN [s EXCEPT !.val = acc]
                       ELSE LET t == read_u64(s.rest)
                            IN IF ~t.ok THEN [t EXCEPT !.val = acc]
                               ELSE read_records_from(
                                        t.rest,
                                        Append(acc, [name |-> n.val,
                                                     file_size |-> s.val,
                                                     filetime |-> t.val]))

read_records(src) == read_records_from(src, <<>>)

----------------------------------------------------------------------------
(* entry::Entry: path, filetime, and a cursor (data, pos) over the payload. *)
(* A borrowed entry holds the wire bytes and decodes them when read; an     *)
(* owned entry holds the decoded bytes.  pos counts units; Len(data) + 1    *)
(* stands for any position past the end.                                    *)

NewEntry(path, filetime, data, borrowed) ==
    [path |-> path, filetime |-> filetime, data |-> data, pos |-> 0,
     borrowed |-> borrowed]

\* the decoded payload
Payload(e) == IF e.borrowed THEN TransformAll(e.data) ELSE e.data

\* Entry::size: the length of the whole payload, wherever the cursor is
size(e) == WLen(e.data)

\* what reading the entry to its end yields
ReadToEnd(e) == Drop(Payload(e), IF e.pos > Len(e.data) THEN Len(e.data) ELSE e.pos)

\* the cursor after reading the entry to its end
PosAfterRead(e) == IF e.pos > Len(e.data) THEN e.pos ELSE Len(e.data)

\* the index of the last byte of name[lo..hi] that is in the set, 0 if none
\* is: the right half is searched before the left one
RECURSIVE rfind_in(_, _, _, _)
rfind_in(name, set, lo, hi) ==
    IF lo > hi THEN 0
    ELSE IF lo = hi THEN (IF name[lo] \in set THEN lo ELSE 0)
    ELSE LET mid == (lo + hi) \div 2
             r == rfind_in(name, set, mid + 1, hi)
         IN IF r # 0 THEN r ELSE rfind_in(name, set, lo, mid)

rfind_byteset(name, set) == rfind_in(name, set, 1, Len(name))

\* Entry::dir: <<>> stands for None, <<d>> for Some(d)
dir(e) ==
    LET i == rfind_byteset(e.path, PATH_SEPERATOR_BYTESET)
    IN IF i = 0 THEN <<>> ELSE <<Take(e.path, i)>>

\* equality of entries as the archive compares them: the cursor's position
\* and the ownership of the payload do not count
EntryEq(a, b) ==
    /\ a.path = b.path
    /\ a.filetime = b.filetime
    /\ Payload(a) = Payload(b)

PakEq(p, q) ==
    /\ Len(p) = Len(q)
    /\ \A i \in 1..Len(p) : EntryEq(p[i], q[i])

----------------------------------------------------------------------------
(* Pak::from_read and Pak::from_bytes *)

LoadOk(entries) ==
    [kind |-> "Ok", arg |-> <<>>, entries |-> entries, parsed |-> Len(entries)]
LoadErr(e, parsed) ==
    [kind |-> e.kind, arg |-> e.arg, entries |-> <<>>, parsed |-> parsed]

\* does a source of plain bytes hold at least w bytes
Holds(src, w) == WLeq(w, <<Len(src), 0>>)

\* faulty variant: every payload is read from the start of the payload region
RECURSIVE read_payloads_same_place(_, _, _)
read_payloads_same_place(records, src, entries) ==
    IF records = <<>> THEN LoadOk(entries)
    ELSE LET record == Head(records)
         IN IF ~Holds(src, record.file_size) THEN LoadErr(Io, Len(entries) + Len(records))
            ELSE LET r == read_exact(src, record.file_size[1])
                 IN read_payloads_same_place(
                        Tail(records), src,
                        Append(entries, NewEntry(record.name, record.filetime,
                                                 r.val, FALSE)))

\* the loop of from_read: read_exact of file_size bytes per record
RECURSIVE read_payloads(_, _, _)
read_payloads(records, src, entries) ==
    IF records = <<>> THEN LoadOk(entries)
    ELSE LET record == Head(records)
         IN IF ~Holds(src, record.file_size) THEN LoadErr(Io, Len(entries) + Len(records))
            ELSE LET r == read_exact(src, record.file_size[1])
                 IN read_payloads(
                        Tail(records), r.rest,
                        Append(entries, NewEntry(record.name, record.filetime,
                                                 r.val, FALSE)))

\* faulty variant: the slice is not advanced past a payload
RECURSIVE slice_payloads_same_place(_, _, _)
slice_payloads_same_place(records, bytes, entries) ==
    IF records = <<>> THEN LoadOk(entries)
    ELSE LET record == Head(records)
         IN IF ~Holds(bytes, record.file_size)
            THEN LoadErr(Panic, Len(entries) + Len(records))
            ELSE LET len == record.file_size[1]
                 IN slice_payloads_same_place(
                        Tail(records), bytes,
                        Append(entries, NewEntry(record.name, record.filetime,
                                                 Take(bytes, len), TRUE)))

\* the loop of from_bytes: the slice bytes[..len] per record
RECURSIVE slice_payloads(_, _, _)
slice_payloads(records, bytes, entries) ==
    IF records = <<>> THEN LoadOk(entries)
    ELSE LET record == Head(records)
         IN IF ~Holds(bytes, record.file_size)
            THEN LoadErr(Panic, Len(entries) + Len(records))
            ELSE LET len == record.file_size[1]
                 IN slice_payloads(
                        Tail(records), Drop(bytes, len),
                        Append(entries, NewEntry(record.name, record.filetime,
                                                 Take(bytes, len), TRUE)))

\* faulty variant: the version is not checked
from_read_no_version(reader) ==
    LET m == read_magic(reader)
    IN IF ~m.ok THEN LoadErr(m.err, 0)
       ELSE LET v == read_exact(m.rest, 4)
            IN IF ~v.ok THEN LoadErr(v.err, 0)
               ELSE LET t == read_records(v.rest)
                    IN IF ~t.ok THEN LoadErr(t.err, Len(t.val))
                       ELSE read_payloads(t.val, t.rest, <<>>)

from_read(reader) ==
    LET m == read_magic(reader)
    IN IF ~m.ok THEN LoadErr(m.err, 0)
       ELSE LET v == read_version(m.rest)
            IN IF ~v.ok THEN LoadErr(v.err, 0)
               ELSE LET t == read_records(v.rest)
                    IN IF ~t.ok THEN LoadErr(t.err, Len(t.val))
                       ELSE read_payloads(t.val, t.rest, <<>>)

from_bytes(bytes) ==
    LET m == read_magic(bytes)
    IN IF ~m.ok THEN LoadErr(m.err, 0)
       ELSE LET v == read_version(m.rest)
            IN IF ~v.ok THEN LoadErr(v.err, 0)
               ELSE LET t == read_records(v.rest)
                    IN IF ~t.ok THEN LoadErr(t.err, Len(t.val))
                       ELSE slice_payloads(t.val, t.rest, <<>>)

----------------------------------------------------------------------------
(* writer::PakWriter, and the steps of Pak::write_to *)

\* what a write emits, and the error that ended it
WOk(bytes) == [err |-> NoErr, bytes |-> bytes]
WErr(e, bytes) == [err |-> e, bytes |-> bytes]

\* write_all, write_u8, write_u32, write_u64: every byte goes through the transform
write_all(bytes) == TransformAll(bytes)

write_filename(name) ==
    IF Len(name) > MAX_NAME_LEN
    THEN WErr(InvalidNameLength(Len(name)), <<>>)
    ELSE WOk(write_all(<<Len(name)>>) \o write_all(name))

\* faulty variant: the length is cut to 32 bits instead of being checked
U32Truncate(w) == [ok |-> TRUE, val |-> <<w[1], w[2] % Limb>>]

\* usize -> u32 by try_into
U32TryFrom(w) ==
    IF WLeq(w, MAX_DATA_LEN) THEN [ok |-> TRUE, val |-> w]
    ELSE [ok |-> FALSE, val |-> w]

\* the header: magic, then version
write_header == write_all(MAGIC) \o write_all(VERSION)

\* faulty variant: a single pass, each record followed at once by its payload
write_record_inline(entry) ==
    LET flag == write_all(<<0>>)
        name == write_filename(entry.path)
        len  == U32TryFrom(size(entry))
    IN IF name.err # NoErr THEN WErr(name.err, flag)
       ELSE IF ~len.ok THEN WErr(InvalidDataLength(size(entry)), flag \o name.bytes)
       ELSE WOk(flag \o name.bytes \o write_all(U32ToLE(len.val))
                     \o write_all(U64ToLE(entry.filetime))
                     \o write_all(ReadToEnd(entry)))

\* one iteration of the first loop of write_to: flag, name, size, time
write_record(entry) ==
    LET flag == write_all(<<0>>)
        name == write_filename(entry.path)
        len  == U32TryFrom(size(entry))
    IN IF name.err # NoErr THEN WErr(name.err, flag)
       ELSE IF ~len.ok THEN WErr(InvalidDataLength(size(entry)), flag \o name.bytes)
       ELSE WOk(flag \o name.bytes \o write_all(U32ToLE(len.val))
                     \o write_all(U64ToLE(entry.filetime)))

\* faulty variant: the cursor is left where it was
io_copy_unmoved(entry) ==
    [bytes |-> write_all(ReadToEnd(entry)), entry |-> entry]

\* faulty variant: the whole payload is emitted, wherever the cursor was
io_copy_whole(entry) ==
    [bytes |-> write_all(Payload(entry)),
     entry |-> [entry EXCEPT !.pos = PosAfterRead(entry)]]

\* one iteration of the second loop of write_to: the entry is read to its end
\* into the writer
io_copy(entry) ==
    [bytes |-> write_all(ReadToEnd(entry)),
     entry |-> [entry EXCEPT !.pos = PosAfterRead(entry)]]

----------------------------------------------------------------------------
(* The inputs: wire images of small archives, well formed and not *)

RECURSIVE Concat(_)
Concat(ss) == IF ss = <<>> THEN <<>> ELSE Head(ss) \o Concat(Tail(ss))

SeqsUpTo(S, n) == UNION {[1..k -> S] : k \in 0..n}

Zero8 == <<0, 0, 0, 0, 0, 0, 0, 0>>
\* 132000000000000000 ticks, little-endian
Time1 == <<0, 0, 90, 246, 76, 245, 212, 1>>

\* a record of the table in the clear, and the payload bytes it declares
Rec(flag, name, sizeLE, timeLE, need) ==
    [bytes |-> <<flag, Len(name)>> \o name \o sizeLE \o timeLE, need |-> need]

RecA == Rec(0, <<97>>, <<1, 0, 0, 0>>, Zero8, 1)
RecB == Rec(0, <<100, 92, 98>>, <<0, 0, 0, 0>>, Time1, 0)
RecC == Rec(0, <<100, 47, 99>>, <<2, 0, 0, 0>>, <<1, 0, 0, 0, 0, 0, 0, 128>>, 2)
\* a flag byte that is neither 0x00 nor has the end bit
RecF == Rec(1, <<102>>, <<1, 0, 0, 0>>, Zero8, 1)
\* a declared size of 65536 bytes
RecH == Rec(0, <<104>>, <<0, 0, 1, 0>>, Zero8, 2)
\* an empty name
RecE == Rec(0, <<>>, <<1, 0, 0, 0>>, Time1, 1)

\* both separators in one name, and a name that ends with a separator
RecS == Rec(0, <<120, 47, 121, 92, 122>>, <<0, 0, 0, 0>>, Zero8, 0)
RecT == Rec(0, <<113, 92, 47>>, <<0, 0, 0, 0>>, Zero8, 0)

RecChoices == {RecA, RecB, RecC}

\* k wire bytes of payload region
Stream(k) == [i \in 1..k |-> ((i * 53) + 200) % 256]

Need(table) == LET n[i \in 0..Len(table)] ==
                       IF i = 0 THEN 0 ELSE n[i - 1] + table[i].need
               IN n[Len(table)]

Wire(magic, version, table, term, k) ==
    TransformAll(magic \o version
                 \o Concat([i \in 1..Len(table) |-> table[i].bytes])
                 \o <<term>>)
    \o Stream(k)

\* archives with a good header and a canonical table, whose payload region is
\* one byte short, exact, or one byte long
RegularInputs ==
    UNION {{Wire(MAGIC, VERSION, t, FILEFLAGS_END, k) :
               k \in {j \in {Need(t) - 1, Need(t), Need(t) + 1} : j >= 0}} :
           t \in SeqsUpTo(RecChoices, MaxRecs)}

BadMagic == <<192, 74, 192, 187>>
BadVersion == <<0, 0, 1, 0>>

HeaderInputs ==
    {Wire(m, v, <<RecA>>, FILEFLAGS_END, 1) :
        m \in {MAGIC, BadMagic, TransformAll(MAGIC)}, v \in {VERSION, BadVersion}}

OddInputs ==
    {Wire(MAGIC, VERSION, <<RecF>>, FILEFLAGS_END, 1),
     Wire(MAGIC, VERSION, <<RecA, RecF>>, FILEFLAGS_END, 2),
     Wire(MAGIC, VERSION, <<RecA>>, 129, 1),
     Wire(MAGIC, VERSION, <<>>, 255, 0),
     Wire(MAGIC, VERSION, <<RecH>>, FILEFLAGS_END, 2),
     Wire(MAGIC, VERSION, <<RecE>>, FILEFLAGS_END, 1),
     Wire(MAGIC, VERSION, <<RecE, RecB>>, FILEFLAGS_END, 0),
     Wire(MAGIC, VERSION, <<RecS, RecT>>, FILEFLAGS_END, 0)}

\* every prefix of one well-formed archive with a table of two records
TruncatedInputs ==
    LET w == Wire(MAGIC, VERSION, <<RecB, RecA>>, FILEFLAGS_END, 1)
    IN {Take(w, k) : k \in 0..Len(w)}

Inputs == RegularInputs \cup HeaderInputs \cup OddInputs \cup TruncatedInputs

\* archives a caller builds entry by entry
LongName == [i \in 1..(MAX_NAME_LEN + 1) |-> 97]
FullName == [i \in 1..MAX_NAME_LEN |-> IF i = 3 THEN 47 ELSE 98]

EntryChoices ==
    {NewEntry(<<97>>, U64FromLE(Zero8), <<1>>, FALSE),
     NewEntry(LongName, U64FromLE(Zero8), <<2>>, FALSE),
     \* 2^32 bytes
     NewEntry(<<104>>, U64FromLE(Time1), <<-1, -1>>, FALSE),
     \* 2^31 + 1 bytes
     NewEntry(<<98>>, U64FromLE(Time1), <<-1, 5>>, FALSE)}

BuiltPaks ==
    (SeqsUpTo(EntryChoices, MaxRecs) \ {<<>>})
    \cup {<<NewEntry(FullName, U64FromLE(Zero8), <<3>>, FALSE)>>,
          <<NewEntry(<<105>>, U64FromLE(Zero8), <<-1, -1, 7>>, FALSE)>>}

----------------------------------------------------------------------------
(* The state machine *)

NotRun == [kind |-> "NotRun", arg |-> <<>>, entries |-> <<>>, parsed |-> 0]

Init ==
    /\ input \in Inputs
    /\ loaded = "none"
    /\ res = NotRun
    /\ pak = <<>>
    /\ wpc = "idle"
    /\ widx = 0
    /\ sink = <<>>
    /\ wres = NoErr
    /\ call = <<>>
    /\ chain = 0
    /\ prevSink = <<>>

Returned == wpc \in {"idle", "done", "failed"}

\* Pak::from_read(input)
LoadRead ==
    /\ loaded = "none"
    /\ loaded' = "read"
    /\ res' = from_read(input)
    /\ pak' = res'.entries
    /\ UNCHANGED <<input, wpc, widx, sink, wres, call, chain, prevSink>>

\* Pak::from_bytes(input)
LoadBytes ==
    /\ loaded = "none"
    /\ loaded' = "bytes"
    /\ res' = from_bytes(input)
    /\ pak' = res'.entries
    /\ UNCHANGED <<input, wpc, widx, sink, wres, call, chain, prevSink>>

\* Pak { entries } built by the caller
Build(entries) ==
    /\ loaded = "none"
    /\ input = <<>>
    /\ loaded' = "built"
    /\ res' = LoadOk(entries)
    /\ pak' = entries
    /\ UNCHANGED <<input, wpc, widx, sink, wres, call, chain, prevSink>>

\* the caller moves the cursor of entry i; Len + 1 is a position past the end
Seek(i, p) ==
    /\ Returned
    /\ i \in 1..Len(pak)
    /\ p \in 0..(Len(pak[i].data) + 1)
    /\ p # pak[i].pos
    /\ pak' = [pak EXCEPT ![i].pos = p]
    /\ wpc' = "idle"
    /\ widx' = 0
    /\ sink' = <<>>
    /\ wres' = NoErr
    /\ call' = <<>>
    /\ chain' = 0
    /\ prevSink' = <<>>
    /\ UNCHANGED <<input, loaded, res>>

\* write_to is called with a fresh sink: magic and version go out
WriteBegin ==
    /\ Returned
    /\ res.kind = "Ok"
    /\ wpc' = "table"
    /\ widx' = 1
    /\ sink' = write_header
    /\ wres' = NoErr
    /\ call' = pak
    /\ chain' = IF wpc = "done" THEN chain ELSE 0
    /\ prevSink' = IF wpc = "done" THEN sink ELSE <<>>
    /\ UNCHANGED <<input, loaded, res, pak>>

\* the first loop: the record of entry widx, or the error that ends the call
WriteRecord ==
    /\ wpc = "table"
    /\ widx <= Len(pak)
    /\ LET w == write_record(pak[widx])
       IN /\ sink' = sink \o w.bytes
          /\ wres' = w.err
          /\ wpc' = IF w.err = NoErr THEN "table" ELSE "failed"
          /\ widx' = IF w.err = NoErr THEN widx + 1 ELSE widx
    /\ UNCHANGED <<input, loaded, res, pak, call, chain, prevSink>>

\* the terminator closes the table
WriteTerminator ==
    /\ wpc = "table"
    /\ widx > Len(pak)
    /\ sink' = sink \o write_all(<<FILEFLAGS_END>>)
    /\ wpc' = "payload"
    /\ widx' = 1
    /\ UNCHANGED <<input, loaded, res, pak, wres, call, chain, prevSink>>

\* the second loop: the payload of entry widx
CopyPayload ==
    /\ wpc = "payload"
    /\ widx <= Len(pak)
    /\ LET c == io_copy(pak[widx])
       IN /\ sink' = sink \o c.bytes
          /\ pak' = [pak EXCEPT ![widx] = c.entry]
    /\ widx' = widx + 1
    /\ UNCHANGED <<input, loaded, res, wpc, wres, call, chain, prevSink>>

\* Ok(())
WriteReturn ==
    /\ wpc = "payload"
    /\ widx > Len(pak)
    /\ wpc' = "done"
    /\ chain' = IF chain >= 2 THEN 2 ELSE chain + 1
    /\ UNCHANGED <<input, loaded, res, pak, widx, sink, wres, call, prevSink>>

Next ==
    \/ LoadRead
    \/ LoadBytes
    \/ \E entries \in BuiltPaks : Build(entries)
    \/ \E i \in 1..Len(pak) : \E p \in 0..(Len(pak[i].data) + 1) : Seek(i, p)
    \/ WriteBegin
    \/ WriteRecord
    \/ WriteTerminator
    \/ CopyPayload
    \/ WriteReturn

Spec == Init /\ [][Next]_vars

----------------------------------------------------------------------------
(* Vocabulary of the properties *)

IsPrefix(a, b) == Len(a) <= Len(b) /\ Take(b, Len(a)) = a

\* the number of bytes the records of the first k entries take in a table
TableLen(es, k) ==
    LET n[i \in 0..k] == IF i = 0 THEN 0 ELSE n[i - 1] + 14 + Len(es[i].path)
    IN n[k]

\* where the table of an archive of these entries ends in its wire image
TableEnd(es) == 8 + TableLen(es, Len(es)) + 1

NameFits(e) == Len(e.path) <= 255
DataFits(e) == size(e)[2] < Limb

\* entry i is the first one of es that the format cannot hold
FirstBad(es, i) ==
    /\ i \in 1..Len(es)
    /\ ~(NameFits(es[i]) /\ DataFits(es[i]))
    /\ \A j \in 1..(i - 1) : NameFits(es[j]) /\ DataFits(es[j])

\* the records of a parsed table are those of the first k entries, in order
RecordsMatch(recs, es, k) ==
    /\ Len(recs) = k
    /\ \A i \in 1..k :
          /\ recs[i].name = es[i].path
          /\ recs[i].file_size = size(es[i])
          /\ recs[i].filetime = es[i].filetime

\* the payload bytes a call emits for the first k entries it was given
Emitted(es, k) == Concat([i \in 1..k |-> TransformAll(ReadToEnd(es[i]))])

\* the cursors of the archive given to the current call were all at the start
Untouched == \A i \in 1..Len(call) : call[i].pos = 0

\* the wire image has canonical flag bytes and ends with its last payload
Canonical(bytes, es) ==
    /\ \A i \in 1..Len(es) : bytes[8 + TableLen(es, i - 1) + 1] = Transform(0)
    /\ bytes[TableEnd(es)] = Transform(128)
    /\ Len(bytes) = TableEnd(es)
                    + Len(Concat([i \in 1..Len(es) |-> es[i].data]))

\* the total of the declared sizes of a list of records
RECURSIVE Declared(_)
Declared(recs) ==
    IF recs = <<>> THEN <<0, 0>>
    ELSE WAdd(Head(recs).file_size, Declared(Tail(recs)))

\* the header is good, the table ends, and it declares more payload than is left
TruncatedPayload(bytes) ==
    /\ Len(bytes) >= 8
    /\ TransformAll(Take(bytes, 8)) = MAGIC \o VERSION
    /\ LET t == read_records(Drop(bytes, 8))
       IN t.ok /\ ~Holds(t.rest, Declared(t.val))

----------------------------------------------------------------------------
(* C1 *)

\* C1 as stated: whenever from_read accepted the input and write_to ran on the
\* untouched archive, the call succeeded, the sink equals the input, and
\* loading the sink again gives an equal archive
C1_RoundTripAny ==
    (loaded = "read" /\ wpc \in {"done", "failed"} /\ Untouched)
        => /\ wpc = "done"
           /\ sink = input
           /\ from_read(sink).kind = "Ok"
           /\ PakEq(from_read(sink).entries, pak)

\* C1 amended: the same, for the inputs whose record flags are 0x00, whose
\* terminator is 0x80 and which end with the last declared payload byte; for
\* any accepted input the call succeeds and what it emits loads back to an
\* equal archive
C1_RoundTrip ==
    (loaded = "read" /\ wpc \in {"done", "failed"} /\ Untouched)
        => /\ wpc = "done"
           /\ Canonical(input, call) => sink = input
           /\ from_read(sink).kind = "Ok"
           /\ PakEq(from_read(sink).entries, pak)

C1_Witness ==
    /\ loaded = "read" /\ wpc = "done" /\ Untouched
    /\ Canonical(input, call)
    /\ Len(call) >= 2
    /\ \A i \in 1..2 : call[i].data # <<>>

----------------------------------------------------------------------------
(* C2 *)

Agree(a, b) ==
    /\ a.kind = "Ok" <=> b.kind = "Ok"
    /\ a.kind = "Ok" => PakEq(a.entries, b.entries)

\* C2: on every input, the archive one load path returned is equal to what the
\* other path returns on the same input (count, order, path, timestamp and
\* decoded payload), and one path returns an archive exactly when the other does
C2_ModeEquivalence ==
    /\ loaded = "read" => Agree(res, from_bytes(input))
    /\ loaded = "bytes" => Agree(res, from_read(input))

C2_Witness ==
    /\ loaded = "bytes" /\ res.kind = "Ok"
    /\ Len(pak) >= 2
    /\ \A i \in 1..2 : pak[i].borrowed /\ pak[i].data # <<>>
    /\ pak[1].data # Payload(pak[1])

----------------------------------------------------------------------------
(* C3 *)

\* C3 as stated: in both load paths a table that declares more payload than
\* the input holds makes the load return the I/O error
C3_TruncatedIsIo ==
    (loaded \in {"read", "bytes"} /\ TruncatedPayload(input)) => res.kind = "Io"

----------------------------------------------------------------------------
(* C4 *)

\* C4 as stated: when the first entry the format cannot hold has a name longer
\* than 255 bytes, write_to fails with the name-length error and the sink holds
\* the header and the records of the entries before it, and nothing of the
\* record of that entry
C4_NameBoundNoBytes ==
    \A i \in 1..Len(call) :
        (wpc \in {"done", "failed"} /\ FirstBad(call, i) /\ ~NameFits(call[i]))
            => /\ wpc = "failed"
               /\ wres = InvalidNameLength(Len(call[i].path))
               /\ Len(sink) = 8 + TableLen(call, i - 1)

----------------------------------------------------------------------------
(* C5 *)

\* C5: in both load paths, four first bytes that do not decode to MAGIC give
\* InvalidMagic with those bytes, and a good magic followed by four bytes that
\* do not decode to VERSION gives InvalidVersion with those bytes; no record
\* has been parsed and there is no archive
C5_HeaderRejection ==
    loaded \in {"read", "bytes"} =>
        LET head == TransformAll(Take(input, IF Len(input) < 8 THEN Len(input) ELSE 8))
        IN /\ (Len(input) >= 4 /\ Take(head, 4) # <<192, 74, 192, 186>>)
                 => res = [kind |-> "InvalidMagic", arg |-> Take(head, 4),
                           entries |-> <<>>, parsed |-> 0]
           /\ (Len(input) >= 8 /\ Take(head, 4) = <<192, 74, 192, 186>>
                 /\ Drop(head, 4) # <<0, 0, 0, 0>>)
                 => res = [kind |-> "InvalidVersion", arg |-> Drop(head, 4),
                           entries |-> <<>>, parsed |-> 0]

C5_Witness ==
    /\ loaded = "read"
    /\ res.kind = "InvalidVersion"
    /\ Len(input) > 8

----------------------------------------------------------------------------
(* C6 *)

\* C6: when the first entry the format cannot hold has a name that fits and a
\* payload longer than 2^32-1 bytes, write_to fails with InvalidDataLength
\* carrying the full length of that payload, and the sink holds the header, the
\* records of the entries before it, and of its own record the flag byte and
\* the name only
C6_PayloadBound ==
    \A i \in 1..Len(call) :
        (wpc \in {"done", "failed"} /\ FirstBad(call, i) /\ NameFits(call[i]))
            => /\ wpc = "failed"
               /\ wres.kind = "InvalidDataLength"
               /\ wres.arg = WLen(call[i].data)
               /\ wres.arg[2] >= Limb
               /\ Len(sink) = 8 + TableLen(call, i - 1) + 2 + Len(call[i].path)

C6_Witness ==
    /\ wpc = "failed"
    /\ wres.kind = "InvalidDataLength"
    /\ widx = 2
    /\ wres.arg = <<0, Limb>>

----------------------------------------------------------------------------
(* C7 *)

\* C7: at every point of a call the sink holds magic and version first; while
\* the table is being written it holds records only, one per entry so far, in
\* entry order and each begun by the flag byte 0x00; from the terminator on it
\* holds the whole table, the byte 0x80 right after it, and after that byte the
\* payloads copied so far in entry order
C7_TwoPassOrder ==
    wpc \in {"table", "payload", "done"} =>
        /\ TransformAll(Take(sink, 8)) = <<192, 74, 192, 186, 0, 0, 0, 0>>
        /\ \A i \in 1..(IF wpc = "table" THEN widx - 1 ELSE Len(call)) :
              sink[8 + TableLen(call, i - 1) + 1] = Transform(0)
        /\ wpc = "table" =>
              /\ Len(sink) = 8 + TableLen(call, widx - 1)
              /\ LET t == read_records(Drop(sink, 8) \o <<Transform(128)>>)
                 IN t.ok /\ RecordsMatch(t.val, call, widx - 1) /\ t.rest = <<>>
        /\ wpc \in {"payload", "done"} =>
              /\ sink[TableEnd(call)] = Transform(128)
              /\ LET t == read_records(Drop(sink, 8))
                 IN /\ t.ok
                    /\ RecordsMatch(t.val, call, Len(call))
                    /\ t.rest = Drop(sink, TableEnd(call))
                    /\ t.rest = Emitted(call, IF wpc = "done" THEN Len(call)
                                                              ELSE widx - 1)

C7_Witness ==
    /\ wpc = "done"
    /\ Len(call) >= 2
    /\ \A i \in 1..2 : ReadToEnd(call[i]) # <<>>

----------------------------------------------------------------------------
(* C8 *)

----------------------------------------------------------------------------
(* C9 *)

Separators(name) == {k \in 1..Len(name) : name[k] \in {92, 47}}

\* C9: for every entry, a name with a separator byte has a directory portion,
\* the non-empty prefix of the name that ends with its last separator, and a
\* name with no separator byte has none
C9_PathSplitting ==
    \A i \in 1..Len(pak) :
        LET name == pak[i].path
            d == dir(pak[i])
        IN IF Separators(name) # {}
           THEN /\ Len(d) = 1
                /\ d[1] # <<>>
                /\ IsPrefix(d[1], name)
                /\ Len(d[1]) \in Separators(name)
                /\ \A k \in Separators(name) : k <= Len(d[1])
           ELSE d = <<>>

C9_Witness ==
    /\ Len(pak) = 2
    /\ Cardinality(Separators(pak[1].path)) = 2
    /\ Len(dir(pak[1])[1]) = 4
    /\ dir(pak[2]) = <<pak[2].path>>

----------------------------------------------------------------------------
(* C10 *)

\* C10: every successful write_to declares in the table the full length of
\* each payload and emits of each payload what lies between the cursor and the
\* end; a call issued right after a successful one, with no cursor moved,
\* does not fail, emits the header and table of the first and no payload byte,
\* and so declares more payload than it holds when some payload is not empty
C10_SecondWrite ==
    /\ wpc = "done" =>
          LET t == read_records(Drop(sink, 8))
          IN /\ t.ok
             /\ \A i \in 1..Len(call) : t.val[i].file_size = WLen(call[i].data)
             /\ t.rest = Emitted(call, Len(call))
    /\ (wpc = "failed" /\ wres.kind # "Ok") => chain = 0
    /\ (wpc = "done" /\ chain >= 2) =>
          /\ sink = Take(prevSink, TableEnd(call))
          /\ Len(sink) = TableEnd(call)
          /\ (\E i \in 1..Len(call) : call[i].data # <<>>)
                => /\ from_read(sink).kind = "Io"
                   /\ ~Holds(Drop(sink, TableEnd(call)),
                             Declared(read_records(Drop(sink, 8)).val))

C10_Witness ==
    /\ wpc = "done"
    /\ chain = 2
    /\ Len(prevSink) > Len(sink)
    /\ Len(call) >= 2

====
